---- MODULE Spec2Model ----
(***************************************************************************)
(* Client-side form state of the UFC Predictor site: the sign-up page      *)
(* (client/src/app/signup/page.tsx) and the sign-in page (second component *)
(* of client/src/components/mainpage/header.tsx).                          *)
(*                                                                         *)
(* A string is a sequence of one-character strings.  React state is a      *)
(* variable per useState cell; one action is one event handler run to its  *)
(* first suspension point (or to its end), with the state updates it       *)
(* queued applied in call order, as React applies them when the handler    *)
(* returns.  A handler reads the state of the render it was created in,    *)
(* which is the state before the action.                                   *)
(***************************************************************************)
EXTENDS Naturals, Sequences, FiniteSets

(* ------------------------------ bounds --------------------------------- *)

\* Accepted submit actions explored per form instance.
MaxSubmits == 2

(* ------------------------------ strings -------------------------------- *)

Lower == {"a","b","c","d","e","f","g","h","i","j","k","l","m",
          "n","o","p","q","r","s","t","u","v","w","x","y","z"}
Upper == {"A","B","C","D","E","F","G","H","I","J","K","L","M",
          "N","O","P","Q","R","S","T","U","V","W","X","Y","Z"}
Digit == {"0","1","2","3","4","5","6","7","8","9"}
Whitespace == {" "}

Empty     == << >>
Blank     == <<" ">>
joe       == <<"j","o","e">>
joedoe    == <<"j","o","e","d","o","e">>
bad_email == <<"b","a","d","-","e","m","a","i","l">>
joe_x_com == <<"j","o","e","@","x",".","c","o","m">>
abcdefgh  == <<"a","b","c","d","e","f","g","h">>
Abcdef12  == <<"A","b","c","d","e","f","1","2">>
Abcdef99  == <<"A","b","c","d","e","f","9","9">>

\* Values a field-change event can carry, per field of the sign-up form.
UsernamePool == {Empty, joe, joedoe}
EmailPool    == {Empty, bad_email, joe_x_com}
PasswordPool == {Empty, abcdefgh, Abcdef12, Abcdef99}
ConfirmPool  == {Empty, Abcdef12, Abcdef99}

Pool(name) ==
    CASE name = "username"        -> UsernamePool
      [] name = "email"           -> EmailPool
      [] name = "password"        -> PasswordPool
      [] name = "confirmPassword" -> ConfirmPool

\* A password with a leading and a trailing space.
pw_padded == <<" ", "p", "w", " ">>

\* Values a field-change event can carry on the sign-in form.
SignInPool(name) ==
    CASE name = "email"    -> {Empty, Blank, joe_x_com}
      [] name = "password" -> {Empty, Blank, Abcdef12, pw_padded}

\* Failure reasons the authentication collaborator can report.
Reasons == { <<"4","0","1">>, <<"d","o","w","n">> }

(* --------------------------- sign-up: rules ----------------------------- *)

\* Object.keys(formData), in insertion order.
FieldOrder == <<"username", "email", "password", "confirmPassword">>
Fields == {FieldOrder[i] : i \in 1..Len(FieldOrder)}

\* A key that is not in the FormErrors object.
Absent == "<absent>"

MsgUsername     == "Username must be at least 4 characters"
MsgEmail        == "Please enter a valid email address"
MsgPasswordLen  == "Password must be at least 8 characters"
MsgPasswordMix  == "Password must contain uppercase, lowercase, and number"
MsgConfirm      == "Passwords do not match"

\* Object.keys(errors)
Keys(errs) == {f \in Fields : errs[f] # Absent}

\* [^\s@]+ matched against s[lo..hi]
NoSpaceAt(s, lo, hi) ==
    /\ lo <= hi
    /\ \A k \in lo..hi : s[k] \notin Whitespace /\ s[k] # "@"

\* The pattern without its ^ and $ anchors: some substring has the shape.
emailRegex_unanchored(s) ==
    \E a \in 1..Len(s) : \E b \in 1..Len(s) :
        \E i \in a..b : \E j \in a..b :
            /\ i < j
            /\ s[i] = "@"
            /\ s[j] = "."
            /\ NoSpaceAt(s, a, i - 1)
            /\ NoSpaceAt(s, i + 1, j - 1)
            /\ NoSpaceAt(s, j + 1, b)

\* /^[^\s@]+@[^\s@]+\.[^\s@]+$/.test(s)
emailRegex(s) ==
    \E i \in 1..Len(s) : \E j \in 1..Len(s) :
        /\ i < j
        /\ s[i] = "@"
        /\ s[j] = "."
        /\ NoSpaceAt(s, 1, i - 1)
        /\ NoSpaceAt(s, i + 1, j - 1)
        /\ NoSpaceAt(s, j + 1, Len(s))

\* /(?=.*[a-z])(?=.*[A-Z])(?=.*\d)/.test(s): some position p from which all
\* three lookaheads succeed.
passwordRegex(s) ==
    \E p \in 0..Len(s) :
        /\ \E k \in (p + 1)..Len(s) : s[k] \in Lower
        /\ \E k \in (p + 1)..Len(s) : s[k] \in Upper
        /\ \E k \in (p + 1)..Len(s) : s[k] \in Digit

\* The username case with the comparison off by one.
usernameMessage_offByOne(value) ==
    IF value = Empty \/ Len(value) <= 4 THEN MsgUsername ELSE Absent

\* validateField, case "username": the message stored, or Absent.
usernameMessage(value) ==
    IF value = Empty \/ Len(value) < 4 THEN MsgUsername ELSE Absent

\* validateField, case "email": the message stored, or Absent.
emailMessage(value) ==
    IF value = Empty \/ ~emailRegex(value) THEN MsgEmail ELSE Absent

\* The password case testing the character classes before the length.
passwordMessage_mixFirst(value) ==
    IF ~passwordRegex(value) THEN MsgPasswordMix
    ELSE IF value = Empty \/ Len(value) < 8 THEN MsgPasswordLen
    ELSE Absent

\* The password case with its minimum length at 6.
passwordMessage_min6(value) ==
    IF value = Empty \/ Len(value) < 6 THEN MsgPasswordLen
    ELSE IF ~passwordRegex(value) THEN MsgPasswordMix
    ELSE Absent

\* validateField, case "password": the message stored, or Absent.
passwordMessage(value) ==
    IF value = Empty \/ Len(value) < 8 THEN MsgPasswordLen
    ELSE IF ~passwordRegex(value) THEN MsgPasswordMix
    ELSE Absent

\* The confirmPassword case comparing lengths instead of values.
confirmPasswordMessage_byLength(data, value) ==
    IF Len(value) # Len(data.password) THEN MsgConfirm ELSE Absent

\* validateField, case "confirmPassword": the message stored, or Absent.
\* data is the formData of the render the call runs in.
confirmPasswordMessage(data, value) ==
    IF value # data.password THEN MsgConfirm ELSE Absent

\* The message validateField stores for (name, value), or Absent when it
\* deletes the key.  data is the formData of the render the call runs in.
FieldMessage(data, name, value) ==
    CASE name = "username"        -> usernameMessage(value)
      [] name = "email"           -> emailMessage(value)
      [] name = "password"        -> passwordMessage(value)
      [] name = "confirmPassword" -> confirmPasswordMessage(data, value)

\* validateField building newErrors from an empty object instead of a copy
\* of errors.
validateField_fromEmpty(errs, data, name, value) ==
    [f \in Fields |-> IF f = name THEN FieldMessage(data, name, value)
                      ELSE Absent]

\* validateField(name, value): the object it hands to setErrors.  errs and
\* data are the errors and formData of the render the call runs in.
validateField(errs, data, name, value) ==
    [errs EXCEPT ![name] = FieldMessage(data, name, value)]

(* ------------------------------- state ---------------------------------- *)

VARIABLES
    route,                \* the page that is mounted: "signup", "signin"
                          \* or "home"
    formData,             \* sign-up: useState<FormData>
    errors,               \* sign-up: useState<FormErrors>
    showPassword,         \* sign-up: useState(false)
    showConfirmPassword,  \* sign-up: useState(false)
    isLoading,            \* sign-up: useState(false)
    siFormData,           \* sign-in: useState<FormData>
    siShowPassword,       \* sign-in: useState(false)
    siIsLoading,          \* sign-in: useState(false)
    inflight,             \* awaited operations that have not settled yet,
                          \* each with the formData its handler closed over
    settled,              \* how the last awaited operation settled
    submits,              \* submit actions that passed the handler's checks
    calls,                \* awaited operations started (delay or login call)
    consoleOut,           \* what the last handler step wrote to the console
    isScrolled,           \* home header: useState(false)
    isMobileMenuOpen,     \* home header: useState(false)
    scrollWidth           \* home header: useState(0)

signUpVars == <<formData, errors, showPassword, showConfirmPassword, isLoading>>
signInVars == <<siFormData, siShowPassword, siIsLoading>>
envVars    == <<inflight, settled, submits, calls, consoleOut>>
headerVars == <<isScrolled, isMobileMenuOpen, scrollWidth>>
vars       == <<route, signUpVars, signInVars, envVars, headerVars>>

NoResult == [status |-> "none", reason |-> Empty]
Silent   == << >>

Init ==
    /\ route \in {"signup", "signin", "home"}
    /\ isScrolled = FALSE
    /\ isMobileMenuOpen = FALSE
    /\ scrollWidth = 0
    /\ formData = [username |-> Empty, email |-> Empty,
                   password |-> Empty, confirmPassword |-> Empty]
    /\ errors = [f \in Fields |-> Absent]
    /\ showPassword = FALSE
    /\ showConfirmPassword = FALSE
    /\ isLoading = FALSE
    /\ siFormData = [email |-> Empty, password |-> Empty]
    /\ siShowPassword = FALSE
    /\ siIsLoading = FALSE
    /\ inflight = << >>
    /\ settled = NoResult
    /\ submits = 0
    /\ calls = 0
    /\ consoleOut = Silent

(* --------------------------- sign-up: events ---------------------------- *)

\* A change handler that also clears isLoading.
handleInputChange_clearsLoading(name, value) ==
    /\ route = "signup"
    /\ value # formData[name]
    /\ formData' = [formData EXCEPT ![name] = value]
    /\ errors' = validateField(errors, formData, name, value)
    /\ isLoading' = FALSE
    /\ consoleOut' = Silent
    /\ UNCHANGED <<route, headerVars, showPassword, showConfirmPassword,
                   signInVars, inflight, settled, submits, calls>>

\* A change handler that stores the value only when it passes its rule.
handleInputChange_dropsInvalid(name, value) ==
    /\ route = "signup"
    /\ value # formData[name]
    /\ formData' = IF FieldMessage(formData, name, value) = Absent
                   THEN [formData EXCEPT ![name] = value]
                   ELSE formData
    /\ errors' = validateField(errors, formData, name, value)
    /\ consoleOut' = Silent
    /\ UNCHANGED <<route, headerVars, showPassword, showConfirmPassword, isLoading,
                   signInVars, inflight, settled, submits, calls>>

\* handleInputChange for a change event of the input called name.
handleInputChange(name, value) ==
    /\ route = "signup"
    /\ value # formData[name]
    /\ formData' = [formData EXCEPT ![name] = value]
    /\ errors' = validateField(errors, formData, name, value)
    /\ consoleOut' = Silent
    /\ UNCHANGED <<route, headerVars, showPassword, showConfirmPassword, isLoading,
                   signInVars, inflight, settled, submits, calls>>

\* setShowPassword(!showPassword)
togglePassword ==
    /\ route = "signup"
    /\ showPassword' = ~showPassword
    /\ consoleOut' = Silent
    /\ UNCHANGED <<route, headerVars, formData, errors, showConfirmPassword, isLoading,
                   signInVars, inflight, settled, submits, calls>>

\* setShowConfirmPassword(!showConfirmPassword)
toggleConfirmPassword ==
    /\ route = "signup"
    /\ showConfirmPassword' = ~showConfirmPassword
    /\ consoleOut' = Silent
    /\ UNCHANGED <<route, headerVars, formData, errors, showPassword, isLoading,
                   signInVars, inflight, settled, submits, calls>>

\* The disabled attribute without its isLoading operand.
submitDisabled_errorsOnly ==
    Keys(errors) # {}

\* The disabled attribute without its errors operand.
submitDisabled_loadingOnly ==
    isLoading

\* disabled attribute of the sign-up submit button.  A disabled default
\* button takes no click and blocks implicit submission, so the form's
\* submit event is raised only while this is false.
submitDisabled ==
    isLoading \/ Keys(errors) # {}

\* The value of errors after the forEach of handleSubmit: every call of
\* validateField copies the errors of the current render and hands the copy
\* to setErrors, and the state keeps the object of the last call.
errorsAfterValidateAll ==
    LET queued == [i \in 1..Len(FieldOrder) |->
                     validateField(errors, formData, FieldOrder[i],
                                   formData[FieldOrder[i]])]
    IN  queued[Len(FieldOrder)]

\* A submit handler that decides on the errors its own validation produced.
handleSubmit_decidesOnFresh ==
    /\ route = "signup"
    /\ ~submitDisabled
    /\ errors' = errorsAfterValidateAll
    /\ IF Keys(errorsAfterValidateAll) = {}
       THEN /\ submits < MaxSubmits
            /\ isLoading' = TRUE
            /\ inflight' = Append(inflight, [data |-> formData])
            /\ submits' = submits + 1
            /\ calls' = calls + 1
       ELSE UNCHANGED <<isLoading, inflight, submits, calls>>
    /\ consoleOut' = Silent
    /\ UNCHANGED <<route, headerVars, formData, showPassword,
                   showConfirmPassword, signInVars, settled>>

\* handleSubmit of the sign-up form, up to its await.
handleSubmit ==
    /\ route = "signup"
    /\ ~submitDisabled
    /\ errors' = errorsAfterValidateAll
    /\ IF Keys(errors) = {}
       THEN /\ submits < MaxSubmits
            /\ isLoading' = TRUE
            /\ inflight' = Append(inflight, [data |-> formData])
            /\ submits' = submits + 1
            /\ calls' = calls + 1
       ELSE UNCHANGED <<isLoading, inflight, submits, calls>>
    /\ consoleOut' = Silent
    /\ UNCHANGED <<route, headerVars, formData, showPassword, showConfirmPassword,
                   signInVars, settled>>

\* inflight without its i-th element
Without(q, i) ==
    [k \in 1..(Len(q) - 1) |-> IF k < i THEN q[k] ELSE q[k + 1]]

\* The continuation without its setIsLoading(false).
delayElapsed_keepsLoading(i) ==
    /\ route = "signup"
    /\ i \in 1..Len(inflight)
    /\ isLoading' = isLoading
    /\ consoleOut' = <<"Form submitted:", inflight[i].data>>
    /\ inflight' = Without(inflight, i)
    /\ settled' = [status |-> "fulfilled", reason |-> Empty]
    /\ UNCHANGED <<route, headerVars, formData, errors, showPassword, showConfirmPassword,
                   signInVars, submits, calls>>

\* A continuation that logs the formData of the latest render.
delayElapsed_logsCurrent(i) ==
    /\ route = "signup"
    /\ i \in 1..Len(inflight)
    /\ isLoading' = FALSE
    /\ consoleOut' = <<"Form submitted:", formData>>
    /\ inflight' = Without(inflight, i)
    /\ settled' = [status |-> "fulfilled", reason |-> Empty]
    /\ UNCHANGED <<route, headerVars, formData, errors, showPassword,
                   showConfirmPassword, signInVars, submits, calls>>

\* handleSubmit of the sign-up form, from the end of the 2000 ms delay on:
\* the placeholder promise always resolves.
delayElapsed(i) ==
    /\ route = "signup"
    /\ i \in 1..Len(inflight)
    /\ isLoading' = FALSE
    /\ consoleOut' = <<"Form submitted:", inflight[i].data>>
    /\ inflight' = Without(inflight, i)
    /\ settled' = [status |-> "fulfilled", reason |-> Empty]
    /\ UNCHANGED <<route, headerVars, formData, errors, showPassword, showConfirmPassword,
                   signInVars, submits, calls>>

(* ------------------------ sign-up: password strength -------------------- *)

\* /[a-z]/.test(s), /[A-Z]/.test(s), /\d/.test(s): s has a character of cls.
HasChar(s, cls) == \E k \in 1..Len(s) : s[k] \in cls

\* The scorer with the last pattern written /[^a-zA-Z]/.
getPasswordStrength_digitIsSymbol(password) ==
    LET s1 == IF Len(password) >= 8 THEN 1 ELSE 0
        s2 == IF HasChar(password, Lower) THEN s1 + 1 ELSE s1
        s3 == IF HasChar(password, Upper) THEN s2 + 1 ELSE s2
        s4 == IF HasChar(password, Digit) THEN s3 + 1 ELSE s3
        s5 == IF \E k \in 1..Len(password) :
                     password[k] \notin (Lower \cup Upper)
              THEN s4 + 1 ELSE s4
    IN  s5

\* getPasswordStrength(password): strength after each of the five tests.
getPasswordStrength(password) ==
    LET s1 == IF Len(password) >= 8 THEN 1 ELSE 0
        s2 == IF HasChar(password, Lower) THEN s1 + 1 ELSE s1
        s3 == IF HasChar(password, Upper) THEN s2 + 1 ELSE s2
        s4 == IF HasChar(password, Digit) THEN s3 + 1 ELSE s3
        s5 == IF \E k \in 1..Len(password) :
                     password[k] \notin (Lower \cup Upper \cup Digit)
              THEN s4 + 1 ELSE s4
    IN  s5

\* getPasswordStrengthText(strength)
getPasswordStrengthText(strength) ==
    CASE strength \in {0, 1} -> "Weak"
      [] strength \in {2, 3} -> "Medium"
      [] strength \in {4, 5} -> "Strong"
      [] OTHER               -> "Weak"

\* getPasswordStrengthColor(strength)
getPasswordStrengthColor(strength) ==
    CASE strength \in {0, 1} -> "bg-red-500"
      [] strength \in {2, 3} -> "bg-yellow-500"
      [] strength \in {4, 5} -> "bg-green-500"
      [] OTHER               -> "bg-gray-300"

\* The label class with its first threshold at 2.
strengthLabelClass_redUpTo2(strength) ==
    IF strength <= 2 THEN "text-red-500"
    ELSE IF strength <= 3 THEN "text-yellow-500"
    ELSE "text-green-500"

\* The colour class of the strength label.
strengthLabelClass(strength) ==
    IF strength <= 1 THEN "text-red-500"
    ELSE IF strength <= 3 THEN "text-yellow-500"
    ELSE "text-green-500"

\* The class of the bar segment number level, level in 1..5.
strengthBarClass(level, strength) ==
    IF level <= strength THEN getPasswordStrengthColor(strength)
    ELSE "bg-gray-200"

\* const passwordStrength = getPasswordStrength(formData.password)
passwordStrength == getPasswordStrength(formData.password)

(* --------------------------- sign-in: events ---------------------------- *)

RECURSIVE trimStart(_)
trimStart(s) ==
    IF s # Empty /\ Head(s) \in Whitespace THEN trimStart(Tail(s)) ELSE s

RECURSIVE trimEnd(_)
trimEnd(s) ==
    IF s # Empty /\ s[Len(s)] \in Whitespace
    THEN trimEnd(SubSeq(s, 1, Len(s) - 1))
    ELSE s

\* String.prototype.trim
trim(s) == trimEnd(trimStart(s))

\* handleInputChange of the sign-in form.
signInInputChange(name, value) ==
    /\ route = "signin"
    /\ value # siFormData[name]
    /\ siFormData' = [siFormData EXCEPT ![name] = value]
    /\ consoleOut' = Silent
    /\ UNCHANGED <<route, headerVars, signUpVars, siShowPassword, siIsLoading,
                   inflight, settled, submits, calls>>

\* setShowPassword(!showPassword) of the sign-in form.
signInTogglePassword ==
    /\ route = "signin"
    /\ siShowPassword' = ~siShowPassword
    /\ consoleOut' = Silent
    /\ UNCHANGED <<route, headerVars, signUpVars, siFormData, siIsLoading,
                   inflight, settled, submits, calls>>

\* disabled attribute of the sign-in submit button.
signInSubmitDisabled ==
    siIsLoading

\* A sign-in submit handler that tests the values without trimming them.
signInSubmit_noTrim ==
    /\ route = "signin"
    /\ ~signInSubmitDisabled
    /\ IF siFormData.email = Empty \/ siFormData.password = Empty
       THEN UNCHANGED <<siIsLoading, inflight, submits, calls>>
       ELSE /\ submits < MaxSubmits
            /\ siIsLoading' = TRUE
            /\ inflight' = Append(inflight,
                   [data |-> [email |-> siFormData.email,
                              password |-> siFormData.password]])
            /\ submits' = submits + 1
            /\ calls' = calls + 1
    /\ consoleOut' = Silent
    /\ UNCHANGED <<route, headerVars, signUpVars, siFormData, siShowPassword,
                   settled>>

\* handleSubmit of the sign-in form, up to its await.
signInSubmit ==
    /\ route = "signin"
    /\ ~signInSubmitDisabled
    /\ IF trim(siFormData.email) = Empty \/ trim(siFormData.password) = Empty
       THEN UNCHANGED <<siIsLoading, inflight, submits, calls>>
       ELSE /\ submits < MaxSubmits
            /\ siIsLoading' = TRUE
            /\ inflight' = Append(inflight,
                   [data |-> [email |-> siFormData.email,
                              password |-> siFormData.password]])
            /\ submits' = submits + 1
            /\ calls' = calls + 1
    /\ consoleOut' = Silent
    /\ UNCHANGED <<route, headerVars, signUpVars, siFormData, siShowPassword, settled>>

\* handleSubmit of the sign-in form after axios.post resolved: the try
\* block logs the response, the finally block clears isLoading.
loginFulfilled(i) ==
    /\ route = "signin"
    /\ i \in 1..Len(inflight)
    /\ consoleOut' = <<"response">>
    /\ siIsLoading' = FALSE
    /\ inflight' = Without(inflight, i)
    /\ settled' = [status |-> "fulfilled", reason |-> Empty]
    /\ UNCHANGED <<route, headerVars, signUpVars, siFormData, siShowPassword,
                   submits, calls>>

\* A catch block that posts the login request again, once.
loginRejected_retries(i, reason) ==
    /\ route = "signin"
    /\ i \in 1..Len(inflight)
    /\ consoleOut' = <<"error occured: ", "SubmitEvent">>
    /\ IF calls = submits
       THEN /\ calls' = calls + 1
            /\ UNCHANGED <<siIsLoading, inflight>>
       ELSE /\ siIsLoading' = FALSE
            /\ inflight' = Without(inflight, i)
            /\ calls' = calls
    /\ settled' = [status |-> "rejected", reason |-> reason]
    /\ UNCHANGED <<route, headerVars, signUpVars, siFormData, siShowPassword, submits>>

\* A catch block that also resets the form.
loginRejected_resetsForm(i, reason) ==
    /\ route = "signin"
    /\ i \in 1..Len(inflight)
    /\ consoleOut' = <<"error occured: ", "SubmitEvent">>
    /\ siIsLoading' = FALSE
    /\ siFormData' = [email |-> Empty, password |-> Empty]
    /\ inflight' = Without(inflight, i)
    /\ settled' = [status |-> "rejected", reason |-> reason]
    /\ UNCHANGED <<route, headerVars, signUpVars, siShowPassword, submits, calls>>

\* handleSubmit of the sign-in form after axios.post rejected with reason:
\* the catch block logs the submit event e (not the caught error), the
\* finally block clears isLoading.
loginRejected(i, reason) ==
    /\ route = "signin"
    /\ i \in 1..Len(inflight)
    /\ consoleOut' = <<"error occured: ", "SubmitEvent">>
    /\ siIsLoading' = FALSE
    /\ inflight' = Without(inflight, i)
    /\ settled' = [status |-> "rejected", reason |-> reason]
    /\ UNCHANGED <<route, headerVars, signUpVars, siFormData, siShowPassword,
                   submits, calls>>

(* --------------------------- home page header --------------------------- *)

\* window.scrollY values a scroll event can report, and the values of
\* document.documentElement.scrollHeight - window.innerHeight; with them
\* the quotient in calculateScrollWidth is a whole number.
ScrollPositions == {0, 10, 11, 50, 100}
ScrollRanges    == {0, 100}

\* Math.min(a, b)
Min(a, b) == IF a <= b THEN a ELSE b

\* One scroll event: both listeners registered at mount run, handleScroll
\* and calculateScrollWidth.
scroll(scrollY, range) ==
    /\ route = "home"
    /\ isScrolled' = (scrollY > 10)
    /\ scrollWidth' = Min((scrollY * 100) \div (IF range = 0 THEN 1 ELSE range),
                          100)
    /\ UNCHANGED <<route, isMobileMenuOpen, signUpVars, signInVars, envVars>>

\* onOpenChange of the Sheet: the menu button opens it; the overlay, the
\* close button and Escape close it.
sheetOpenChange(open) ==
    /\ route = "home"
    /\ open # isMobileMenuOpen
    /\ isMobileMenuOpen' = open
    /\ UNCHANGED <<route, isScrolled, scrollWidth,
                   signUpVars, signInVars, envVars>>

\* The links inside the mobile menu and the page each one leads to.
MenuLinks == {"logo", "Home", "Predictions", "How It Works",
              "Sign In", "Get Started Free"}

LinkTarget(link) ==
    CASE link = "Sign In"          -> "signin"
      [] link = "Get Started Free" -> "signup"
      [] OTHER                     -> "home"

\* The menu with navigation links that have no onClick.
menuLinkClick_navKeepsOpen(link) ==
    /\ route = "home"
    /\ isMobileMenuOpen
    /\ link \in MenuLinks
    /\ IF LinkTarget(link) = "home"
       THEN /\ isMobileMenuOpen' = (link # "logo")
            /\ UNCHANGED <<route, isScrolled, scrollWidth>>
       ELSE /\ route' = LinkTarget(link)
            /\ isMobileMenuOpen' = FALSE
            /\ isScrolled' = FALSE
            /\ scrollWidth' = 0
    /\ UNCHANGED <<signUpVars, signInVars, envVars>>

\* A click on a link inside the open mobile menu: its onClick calls
\* setIsMobileMenuOpen(false); a link to another page then unmounts the
\* home page, which discards the header's state.
menuLinkClick(link) ==
    /\ route = "home"
    /\ isMobileMenuOpen
    /\ link \in MenuLinks
    /\ IF LinkTarget(link) = "home"
       THEN /\ isMobileMenuOpen' = FALSE
            /\ UNCHANGED <<route, isScrolled, scrollWidth>>
       ELSE /\ route' = LinkTarget(link)
            /\ isMobileMenuOpen' = FALSE
            /\ isScrolled' = FALSE
            /\ scrollWidth' = 0
    /\ UNCHANGED <<signUpVars, signInVars, envVars>>

(* --------------------------- specification ------------------------------ *)

InputChange == \E name \in Fields : \E value \in Pool(name) :
                   handleInputChange(name, value)
DelayElapsed == \E i \in 1..Len(inflight) : delayElapsed(i)
SignInInputChange == \E name \in {"email", "password"} :
                         \E value \in SignInPool(name) :
                             signInInputChange(name, value)
LoginFulfilled == \E i \in 1..Len(inflight) : loginFulfilled(i)
LoginRejected == \E i \in 1..Len(inflight) : \E reason \in Reasons :
                     loginRejected(i, reason)

Scroll == \E scrollY \in ScrollPositions : \E range \in ScrollRanges :
              scroll(scrollY, range)
SheetOpenChange == \E open \in BOOLEAN : sheetOpenChange(open)
MenuLinkClick == \E link \in MenuLinks : menuLinkClick(link)

Next ==
    \/ InputChange
    \/ togglePassword
    \/ toggleConfirmPassword
    \/ handleSubmit
    \/ DelayElapsed
    \/ SignInInputChange
    \/ signInTogglePassword
    \/ signInSubmit
    \/ LoginFulfilled
    \/ LoginRejected
    \/ Scroll
    \/ SheetOpenChange
    \/ MenuLinkClick

Spec == Init /\ [][Next]_vars

\* The awaited operation settles: the timer of the placeholder delay fires,
\* the login call resolves or rejects.
LiveSpec ==
    /\ Spec
    /\ WF_vars(DelayElapsed)
    /\ WF_vars(LoginFulfilled \/ LoginRejected)

(* ------------------------- typing into one field ------------------------- *)

\* Characters a keystroke can add to a field, and the longest value typed.
UsernameAlphabet == {"a", " "}
EmailAlphabet    == {"a", "@", ".", " "}
PasswordAlphabet == {"a", "A", "1", "!"}

MaxUsernameLen == 5
MaxEmailLen    == 6
MaxPasswordLen == 8

TypedFields == {"username", "email", "password"}

Alphabet(name) ==
    CASE name = "username" -> UsernameAlphabet
      [] name = "email"    -> EmailAlphabet
      [] name = "password" -> PasswordAlphabet

MaxLen(name) ==
    CASE name = "username" -> MaxUsernameLen
      [] name = "email"    -> MaxEmailLen
      [] name = "password" -> MaxPasswordLen

\* Every field but name is as it was at mount.
OthersUntouched(name) ==
    \A g \in Fields \ {name} : formData[g] = Empty /\ errors[g] = Absent

\* The change event of a keystroke that adds the character c.
typeChar(name, c) ==
    /\ Len(formData[name]) < MaxLen(name)
    /\ OthersUntouched(name)
    /\ handleInputChange(name, Append(formData[name], c))

\* The change event of a keystroke that deletes the last character.
backspace(name) ==
    /\ formData[name] # Empty
    /\ OthersUntouched(name)
    /\ handleInputChange(name,
           SubSeq(formData[name], 1, Len(formData[name]) - 1))

TypeChar  == \E name \in TypedFields : \E c \in Alphabet(name) :
                 typeChar(name, c)
Backspace == \E name \in TypedFields : backspace(name)

TypingInit == Init /\ route = "signup"

TypingNext ==
    \/ TypeChar
    \/ Backspace

\* The sign-up form with one field typed into, character by character.
TypingSpec == TypingInit /\ [][TypingNext]_vars

TypeOK ==
    /\ route \in {"signup", "signin", "home"}
    /\ isScrolled \in BOOLEAN /\ isMobileMenuOpen \in BOOLEAN
    /\ scrollWidth \in 0..100
    /\ \A f \in Fields : formData[f] \in Pool(f)
    /\ isLoading \in BOOLEAN /\ siIsLoading \in BOOLEAN
    /\ submits \in 0..MaxSubmits /\ calls \in Nat

(* ----------------------------- properties ------------------------------- *)

\* The field named f fails its validation rule on the values in data.
FieldFails(data, f) == FieldMessage(data, f, data[f]) # Absent

\* The submission state the form is in.
SubmissionState ==
    IF inflight # << >> THEN "submitting"
    ELSE CASE settled.status = "none"      -> "idle"
           [] settled.status = "fulfilled" -> "succeeded"
           [] settled.status = "rejected"  -> "failed"

\* The strings held in the state of the sign-in form.
SignInStateStrings == {siFormData.email, siFormData.password}

\* C1: on the sign-up form a submit action taken while some field value
\* fails its rule never starts a submission: isLoading does not become true
\* and the registration step is not run.
C1_InvalidSubmitNeverStarts ==
    [][(handleSubmit /\ \E f \in Fields : FieldFails(formData, f))
          => (isLoading' = isLoading /\ calls' = calls)]_vars

\* C2: a sign-up submit leaves an entry in errors for every field whose
\* current value fails its rule, edited or not, and the submission starts
\* exactly when that freshly computed mapping is empty.
C2_SubmitRevalidatesAllFields ==
    [][handleSubmit =>
          /\ \A f \in Fields : FieldFails(formData, f) => errors'[f] # Absent
          /\ (calls' # calls) <=> (Keys(errors') = {})]_vars

\* C3: when confirmPassword was validated as matching (it was entered and
\* carries no error) and a change event sets password to a different value,
\* errors holds "Passwords do not match" for confirmPassword afterwards.
C3_PasswordChangeInvalidatesConfirm ==
    [][\A v \in PasswordPool :
          ( /\ handleInputChange("password", v)
            /\ formData.confirmPassword # Empty
            /\ formData.confirmPassword = formData.password
            /\ errors.confirmPassword = Absent
            /\ v # formData.confirmPassword )
          => errors'.confirmPassword = MsgConfirm]_vars

\* C4: a field is a key of errors only if its current value fails its rule
\* (confirmPassword: only if it differs from the current password).
C4_ErrorOnlyIfCurrentValueFails ==
    route = "signup" =>
        \A f \in Fields : errors[f] # Absent => FieldFails(formData, f)

\* C5: a change event for field f leaves the entry of every other field in
\* errors as it was, present with its message or absent.
C5_ChangeTouchesOnlyItsKey ==
    [][\A f \in Fields : \A v \in Pool(f) :
          handleInputChange(f, v) =>
              \A g \in Fields \ {f} : errors'[g] = errors[g]]_vars

\* Two entries are present: the change event that added the second one ran
\* with the first one in place.
C5_Witness ==
    /\ route = "signup"
    /\ Cardinality(Keys(errors)) >= 2

\* C6: an accepted submit moves the form to submitting, a successful result
\* to succeeded and a failure to failed, and in the failed state the reason
\* the collaborator reported is held in the form's state.
C6_LifecycleKeepsFailureReason ==
    [][ /\ ((handleSubmit \/ signInSubmit) /\ calls' # calls)
              => SubmissionState' = "submitting"
        /\ (DelayElapsed \/ LoginFulfilled) => SubmissionState' = "succeeded"
        /\ LoginRejected =>
              /\ SubmissionState' = "failed"
              /\ settled'.reason \in SignInStateStrings' ]_vars

\* C7: a form instance has at most one submission awaiting its result.
C7_AtMostOneInFlight ==
    Len(inflight) <= 1

\* A sign-up submission is awaited, nothing but isLoading disables the
\* submit button, and a further submit would be within the explored bound.
C7_Witness ==
    /\ route = "signup"
    /\ Len(inflight) = 1
    /\ Keys(errors) = {}
    /\ submitDisabled
    /\ submits < MaxSubmits

\* C8: every accepted submit starts the awaited operation exactly once, and
\* no operation is started without a submit: after a failure too, as many
\* operations were started as submits were accepted.
C8_OneCallPerSubmit ==
    calls = submits

\* A login call failed and its handler has finished.
C8_Witness ==
    /\ route = "signin"
    /\ settled.status = "rejected"
    /\ inflight = << >>
    /\ calls = 1

\* C9: a form that is loading is eventually not loading, on the sign-up
\* form and on the sign-in form, when the awaited operation settles.
C9_LoadingEventuallyEnds ==
    /\ isLoading ~> ~isLoading
    /\ siIsLoading ~> ~siIsLoading

\* The placeholder delay of a sign-up submission has just ended.
C9_Witness ==
    /\ route = "signup"
    /\ settled.status = "fulfilled"
    /\ consoleOut # Silent
    /\ ~isLoading

\* C10: a failed login keeps the field values and leaves the submit button
\* enabled; in the failed state every field-change event is still taken,
\* and a submit with both fields filled in starts a new attempt.
C10_FailedFormStaysUsable ==
    /\ [][LoginRejected =>
             (siFormData' = siFormData /\ ~signInSubmitDisabled')]_vars
    /\ [](route = "signin" /\ SubmissionState = "failed" =>
             \A n \in {"email", "password"} :
                 \A v \in SignInPool(n) \ {siFormData[n]} :
                     ENABLED signInInputChange(n, v))
    /\ [][(signInSubmit /\ SubmissionState = "failed"
             /\ trim(siFormData.email) # Empty
             /\ trim(siFormData.password) # Empty)
          => (siIsLoading' /\ calls' = calls + 1)]_vars

\* A new login attempt is awaited after an earlier one failed, with the
\* values that were entered before the failure.
C10_Witness ==
    /\ route = "signin"
    /\ settled.status = "rejected"
    /\ Len(inflight) = 1
    /\ siIsLoading

\* C11: once a submission has succeeded, no later event of the form starts
\* another submission.
C11_SucceededIsTerminal ==
    [][settled.status = "fulfilled" => calls' = calls]_vars

\* C12: isLoading changes only in a submit action or when the awaited
\* operation settles; field-change events and visibility toggles keep it.
C12_LoadingChangesOnlyBySubmit ==
    [][ /\ isLoading' # isLoading => (handleSubmit \/ DelayElapsed)
        /\ siIsLoading' # siIsLoading =>
               (signInSubmit \/ LoginFulfilled \/ LoginRejected)
        /\ ( InputChange \/ togglePassword \/ toggleConfirmPassword
             \/ SignInInputChange \/ signInTogglePassword )
               => (isLoading' = isLoading /\ siIsLoading' = siIsLoading)
      ]_vars

\* A sign-up field was edited and a visibility toggle was used while the
\* submission is awaited.
C12_Witness ==
    /\ route = "signup"
    /\ isLoading
    /\ Len(inflight) = 1
    /\ inflight[1].data # formData
    /\ showPassword

\* C13: whatever errors holds, every field-change event is taken and stores
\* the value it carries, valid or not.
C13_ChangeAlwaysStoresValue ==
    route = "signup" =>
        \A f \in Fields : \A v \in Pool(f) \ {formData[f]} :
            ENABLED (InputChange /\ formData'[f] = v)

\* An invalid username was stored while another field already had an error.
C13_Witness ==
    /\ route = "signup"
    /\ formData.username = joe
    /\ errors.username = MsgUsername
    /\ errors.email = MsgEmail

\* C14: whenever the username changes, errors holds "Username must be at
\* least 4 characters" for it if the new value has fewer than 4 characters,
\* and no username entry if it has 4 or more.
C14_UsernameRuleByLength ==
    [][formData'.username # formData.username =>
          errors'.username = IF Len(formData'.username) < 4
                             THEN MsgUsername ELSE Absent]_vars

\* The fourth character was typed: the error of the three-character value
\* is gone.
C14_Witness ==
    /\ Len(formData.username) = 4
    /\ errors.username = Absent

\* C15: a username whose trimmed length is below 4 gets the error
\* "Username must be at least 4 characters".
C15_UsernameRuleOnTrimmedValue ==
    [][(formData'.username # formData.username
          /\ Len(trim(formData'.username)) < 4)
       => errors'.username = MsgUsername]_vars

\* The password message as the claim gives it.
ExpectedPasswordMessage(v) ==
    IF Len(v) < 8 THEN MsgPasswordLen
    ELSE IF ~( /\ \E k \in DOMAIN v : v[k] \in Lower
               /\ \E k \in DOMAIN v : v[k] \in Upper
               /\ \E k \in DOMAIN v : v[k] \in Digit )
         THEN MsgPasswordMix
    ELSE Absent

\* C16: whenever the password changes, errors holds the length message if
\* the new value has fewer than 8 characters, else the character-class
\* message unless it has a lowercase letter, an uppercase letter and a
\* digit in any order, else no password entry.
C16_PasswordRule ==
    [][formData'.password # formData.password =>
          errors'.password = ExpectedPasswordMessage(formData'.password)]_vars

\* An accepted password that starts with its digit and ends with its
\* lowercase letter.
C16_Witness ==
    /\ Len(formData.password) = 8
    /\ formData.password[1] \in Digit
    /\ formData.password[8] \in Lower
    /\ errors.password = Absent

\* C17: whenever confirmPassword changes, errors holds "Passwords do not
\* match" for it exactly when the new value differs from the password the
\* form holds, and no confirmPassword entry otherwise.
C17_ConfirmMatchesCurrentPassword ==
    [][formData'.confirmPassword # formData.confirmPassword =>
          errors'.confirmPassword =
              IF formData'.confirmPassword # formData.password
              THEN MsgConfirm ELSE Absent]_vars

\* A confirmPassword that was entered and found equal to the password,
\* while an equally long other password exists.
C17_Witness ==
    /\ route = "signup"
    /\ formData.confirmPassword = Abcdef99
    /\ formData.password = Abcdef99
    /\ errors.confirmPassword = Absent

\* s has the shape local@domain.tld.
EmailShape(s) ==
    LET ats == {k \in DOMAIN s : s[k] = "@"}
    IN  /\ \A k \in DOMAIN s : s[k] \notin Whitespace
        /\ Cardinality(ats) = 1
        /\ \A at \in ats :
               /\ at > 1
               /\ \E dot \in DOMAIN s :
                      s[dot] = "." /\ dot > at + 1 /\ dot < Len(s)

\* C18: whenever the email changes, errors has no email entry exactly when
\* the new value has the shape local@domain.tld, and holds "Please enter a
\* valid email address" otherwise.
C18_EmailRule ==
    [][formData'.email # formData.email =>
          errors'.email = IF EmailShape(formData'.email)
                          THEN Absent ELSE MsgEmail]_vars

\* The shortest accepted email has been typed.
C18_Witness ==
    /\ formData.email = <<"a", "@", "a", ".", "a">>
    /\ errors.email = Absent

\* The criteria of the strength score that s satisfies.
SatisfiedCriteria(s) ==
    {c \in {"length", "lower", "upper", "digit", "symbol"} :
        CASE c = "length" -> Len(s) >= 8
          [] c = "lower"  -> \E k \in DOMAIN s : s[k] \in Lower
          [] c = "upper"  -> \E k \in DOMAIN s : s[k] \in Upper
          [] c = "digit"  -> \E k \in DOMAIN s : s[k] \in Digit
          [] c = "symbol" -> \E k \in DOMAIN s :
                                 s[k] \notin (Lower \cup Upper \cup Digit)}

\* n copies of the character c
Repeat(c, n) == [k \in 1..n |-> c]

\* The characters of s in the order ! 1 A a.
SortedChars(s) ==
    LET count(c) == Cardinality({k \in DOMAIN s : s[k] = c})
    IN  Repeat("!", count("!")) \o Repeat("1", count("1"))
          \o Repeat("A", count("A")) \o Repeat("a", count("a"))

\* C19: the strength score of the password is in 0..5, is the number of
\* criteria the password satisfies, and is the score of the same characters
\* in sorted order, hence of any rearrangement of them.
C19_StrengthCountsCriteria ==
    /\ passwordStrength \in 0..5
    /\ passwordStrength = Cardinality(SatisfiedCriteria(formData.password))
    /\ passwordStrength = getPasswordStrength(SortedChars(formData.password))

\* A password that satisfies all five criteria and is not in sorted order.
C19_Witness ==
    /\ passwordStrength = 5
    /\ formData.password # SortedChars(formData.password)

\* The band of a score and the colour of a class name.
StrengthBand(n) ==
    IF n <= 1 THEN [label |-> "Weak", colour |-> "red"]
    ELSE IF n <= 3 THEN [label |-> "Medium", colour |-> "yellow"]
    ELSE [label |-> "Strong", colour |-> "green"]

ClassColour(cls) ==
    CASE cls \in {"text-red-500", "bg-red-500"}       -> "red"
      [] cls \in {"text-yellow-500", "bg-yellow-500"} -> "yellow"
      [] cls \in {"text-green-500", "bg-green-500"}   -> "green"
      [] OTHER                                        -> "grey"

\* C20: the rendered score is in 0..5, and for every score in 0..5 the
\* label is Weak, Medium or Strong by band and the label colour and the
\* colour of every lit bar segment are the colour of that band.
C20_StrengthBands ==
    /\ passwordStrength \in 0..5
    /\ \A n \in 0..5 :
           /\ getPasswordStrengthText(n) = StrengthBand(n).label
           /\ ClassColour(strengthLabelClass(n)) = StrengthBand(n).colour
           /\ \A level \in 1..n :
                  ClassColour(strengthBarClass(level, n))
                      = StrengthBand(n).colour

\* A password of score 3 is rendered: the top of the Medium band.
C20_Witness ==
    /\ formData.password # Empty
    /\ passwordStrength = 3
    /\ getPasswordStrengthText(passwordStrength) = "Medium"

\* C21: whenever the fields hold joe, joe@x.com, Abcdef12 and Abcdef12,
\* errors holds the username message and no other entry, and a submit
\* action cannot start a submission.
C21_ExampleShortUsername ==
    ( /\ route = "signup"
      /\ formData = [username |-> joe, email |-> joe_x_com,
                     password |-> Abcdef12, confirmPassword |-> Abcdef12] )
    => /\ errors = [f \in Fields |->
                       IF f = "username" THEN MsgUsername ELSE Absent]
       /\ ~ENABLED (handleSubmit /\ calls' # calls)

\* C22: whenever the fields hold joedoe, bad-email, Abcdef12 and Abcdef12,
\* errors holds exactly one entry, the email message.
C22_ExampleBadEmail ==
    ( /\ route = "signup"
      /\ formData = [username |-> joedoe, email |-> bad_email,
                     password |-> Abcdef12, confirmPassword |-> Abcdef12] )
    => errors = [f \in Fields |-> IF f = "email" THEN MsgEmail ELSE Absent]

\* C23: all four fields are empty at mount, and when a submission completes
\* successfully the form no longer holds the entered values.
C23_ValuesDiscardedOnSuccess ==
    /\ (route = "signup" => \A f \in Fields : formData[f] = Empty)
    /\ [][(route = "signup" /\ Len(inflight') < Len(inflight)
             /\ settled'.status = "fulfilled")
          => \A f \in Fields : formData'[f] = Empty]_vars

\* C24: a sign-up submit starts the submission exactly when the errors
\* rendered before the submit had no key, whatever its own four validateField
\* calls find; of those calls only the last one, for confirmPassword, leaves
\* a trace in errors.
C24_SubmitDecidesOnRenderedErrors ==
    [][handleSubmit =>
         /\ (isLoading' /\ calls' = calls + 1) <=> (Keys(errors) = {})
         /\ \A f \in Fields \ {"confirmPassword"} : errors'[f] = errors[f]
         /\ errors'["confirmPassword"] =
               IF formData["confirmPassword"] # formData["password"]
               THEN MsgConfirm ELSE Absent]_vars

\* A submission is in flight for a form whose username and email fail their
\* rules without an entry in errors, and the submit left the confirmPassword
\* message.
C24_Witness ==
    /\ route = "signup"
    /\ isLoading
    /\ Len(inflight) = 1
    /\ inflight[1].data = formData
    /\ formData["username"] = Empty
    /\ formData["password"] = Abcdef12
    /\ formData["confirmPassword"] = Empty
    /\ errors = [f \in Fields |->
                    IF f = "confirmPassword" THEN MsgConfirm ELSE Absent]

\* The form state handleInputChange leaves when it runs in the render st.
changeResult(st, name, value) ==
    [formData |-> [st.formData EXCEPT ![name] = value],
     errors   |-> validateField(st.errors, st.formData, name, value)]

\* The state of the form at mount.
Mounted ==
    [formData |-> [f \in Fields |-> Empty],
     errors   |-> [f \in Fields |-> Absent]]

\* The orders in which the four fields can be filled in, one event each.
Orders ==
    {o \in [1..Len(FieldOrder) -> Fields] : \A f \in Fields : \E i \in DOMAIN o : o[i] = f}

RECURSIVE changeAll(_, _, _)
\* One change event per field of order, each field set to its value in vals.
changeAll(st, order, vals) ==
    IF order = <<>>
    THEN st
    ELSE changeAll(changeResult(st, Head(order), vals[Head(order)]),
                   Tail(order), vals)

\* C25: for the four non-empty values a form holds, filling a freshly mounted
\* form with them, one change event per field, leaves the same errors in
\* whichever order the fields are changed.
C25_ErrorsIndependentOfOrder ==
    ( /\ route = "signup"
      /\ \A f \in Fields : formData[f] # Empty )
    => \A o1, o2 \in Orders :
          changeAll(Mounted, o1, formData).errors
            = changeAll(Mounted, o2, formData).errors

\* s is empty or consists of whitespace only.
IsBlank(s) == \A k \in DOMAIN s : s[k] \in Whitespace

\* C26: a sign-in submit with a blank email or password makes no login call
\* and leaves isLoading false and the values as they are; with both non-blank
\* it makes exactly one login call, carrying the email and the password the
\* form holds at that moment, untrimmed.
C26_SignInSubmitGuard ==
    [][signInSubmit =>
         IF IsBlank(siFormData.email) \/ IsBlank(siFormData.password)
         THEN /\ calls' = calls
              /\ inflight' = inflight
              /\ ~siIsLoading'
              /\ siFormData' = siFormData
         ELSE /\ calls' = calls + 1
              /\ inflight' = Append(inflight, [data |-> siFormData])
              /\ siFormData' = siFormData]_vars

\* A login call is in flight with the padded password exactly as typed.
C26_Witness ==
    /\ route = "signin"
    /\ calls = 1
    /\ Len(inflight) = 1
    /\ inflight[1].data = siFormData
    /\ siFormData.password = pw_padded

\* C27: on the sign-up form a submit event can be raised exactly when
\* isLoading is false and errors has no key; the submit control is disabled
\* in every other state.
C27_SubmitControlDisabled ==
    (route = "signup" /\ submits < MaxSubmits)
    => /\ (ENABLED handleSubmit) <=>
              (~isLoading /\ \A f \in Fields : errors[f] = Absent)
       /\ submitDisabled <=>
              (isLoading \/ \E f \in Fields : errors[f] # Absent)

\* The sign-up form as mounted, after the password was revealed: four empty
\* fields, nothing validated, and the submit control is enabled.
C27_Witness ==
    /\ route = "signup"
    /\ showPassword
    /\ \A f \in Fields : formData[f] = Empty /\ errors[f] = Absent
    /\ ~isLoading
    /\ submits = 0
    /\ settled = NoResult
    /\ ~submitDisabled
    /\ ENABLED handleSubmit

\* C28: a typed password that validation left without a password error
\* scores at least 4 and is labelled "Strong", never "Weak" or "Medium".
C28_AcceptedPasswordIsStrong ==
    (formData.password # Empty /\ errors.password = Absent)
    => /\ passwordStrength >= 4
       /\ getPasswordStrengthText(passwordStrength) = "Strong"
       /\ getPasswordStrengthText(passwordStrength) \notin {"Weak", "Medium"}

\* An accepted password without a special character: it scores exactly 4.
C28_Witness ==
    /\ formData.password # Empty
    /\ errors.password = Absent
    /\ ~HasChar(formData.password, {"!"})
    /\ passwordStrength = 4
    /\ getPasswordStrengthText(passwordStrength) = "Strong"

\* C29: while a sign-up submission is in flight every field still takes
\* change events, and what is logged as submitted when the wait ends is the
\* formData the form held when the submit happened, whatever was typed since.
C29_SubmittedDataIsSnapshot ==
    /\ [](route = "signup" /\ isLoading =>
             \A f \in Fields : \A v \in Pool(f) \ {formData[f]} :
                 ENABLED (InputChange /\ formData'[f] = v))
    /\ [][(route = "signup" /\ Len(inflight') = Len(inflight) + 1)
          => inflight'[Len(inflight')].data = formData]_vars
    /\ [][(route = "signup" /\ isLoading /\ formData' # formData)
          => inflight' = inflight]_vars
    /\ [][(route = "signup" /\ Len(inflight') < Len(inflight))
          => consoleOut' = <<"Form submitted:", inflight[1].data>>]_vars

\* The wait has ended and the logged data differ from what the form now
\* holds: a field was edited while the submission was in flight.
C29_Witness ==
    /\ route = "signup"
    /\ Len(consoleOut) = 2
    /\ consoleOut[1] = "Form submitted:"
    /\ consoleOut[2] # formData
    /\ ~isLoading

\* C30: with the mobile menu open, the logo link, every navigation link and
\* both auth links can be activated and each leaves isMobileMenuOpen false;
\* a scroll event never changes isMobileMenuOpen.
C30_MenuLinksCloseMenu ==
    /\ [](route = "home" /\ isMobileMenuOpen =>
             \A link \in MenuLinks :
                 /\ ENABLED (menuLinkClick(link) /\ ~isMobileMenuOpen')
                 /\ ~ENABLED (menuLinkClick(link) /\ isMobileMenuOpen'))
    /\ [][MenuLinkClick => ~isMobileMenuOpen']_vars
    /\ [][(Scroll \/ (route' = route /\ (isScrolled' # isScrolled
                                         \/ scrollWidth' # scrollWidth)))
          => isMobileMenuOpen' = isMobileMenuOpen]_vars

\* The page was scrolled to its end while the mobile menu was open, and the
\* menu is still open with its links ready to close it.
C30_Witness ==
    /\ route = "home"
    /\ isMobileMenuOpen
    /\ isScrolled
    /\ scrollWidth = 100
    /\ ENABLED MenuLinkClick

====
